---- MODULE Spec2Model ----
(***************************************************************************)
(* The split instruction of the stake program                              *)
(* (program/src/instruction/split.rs, process_split).                      *)
(*                                                                         *)
(* A u64 is a word of NBytes digits in base ByteBase, so that the byte     *)
(* arrays the handler stores ([u8; 8] in the program) and the order in     *)
(* which it writes and reads them are part of the model.  Callees of the   *)
(* handler that live in crate::state are modelled from their contract.     *)
(***************************************************************************)
EXTENDS Integers, Sequences, FiniteSets, TLC

\* ------------------------------------------------------------------ bounds
ByteBase == 3
NBytes == 2
\* rent.minimum_balance(StakeStateV2::size_of()), the Rent sysvar's answer
RentExemptMinimum == 2
\* largest balance an account starts with
MaxBalance == 7
\* largest minimum delegation the runtime may be configured with
MaxMinDelegation == 2
\* Clock::get().epoch
CurrentEpoch == 1

\* ------------------------------------------------------- program constants
\* StakeStateV2::size_of()
StakeStateSize == 200

RECURSIVE Pow(_, _)
Pow(b, e) == IF e = 0 THEN 1 ELSE b * Pow(b, e - 1)

\* u64::MAX
U64Max == Pow(ByteBase, NBytes) - 1

Min(a, b) == IF a < b THEN a ELSE b

\* ----------------------------------------------------------- u64 and bytes
\* u64::to_le_bytes: least significant byte first
to_le_bytes(n) == [i \in 1..NBytes |-> (n \div Pow(ByteBase, i - 1)) % ByteBase]

\* u64::to_be_bytes: most significant byte first
to_be_bytes(n) == [i \in 1..NBytes |-> (n \div Pow(ByteBase, NBytes - i)) % ByteBase]

RECURSIVE LeSum(_, _)
LeSum(b, i) == IF i > NBytes THEN 0 ELSE b[i] * Pow(ByteBase, i - 1) + LeSum(b, i + 1)

\* u64::from_le_bytes
from_le_bytes(b) == LeSum(b, 1)

\* u64::from_be_bytes
from_be_bytes(b) == LeSum([i \in 1..NBytes |-> b[NBytes + 1 - i]], 1)

\* crate::state::bytes_to_u64
bytes_to_u64(b) == from_le_bytes(b)

\* u64::saturating_sub
saturating_sub(a, b) == IF a > b THEN a - b ELSE 0

\* ------------------------------------------------------------------- state
\* The accounts a transaction may hand to the instruction: two of record
\* size, and one whose data length is not the record size.
StakeKeys == {"A", "B"}
OddKey == "X"
AccountKeys == StakeKeys \cup {OddKey}
StakerKey == "stk"
WithdrawerKey == "wdr"
\* every key that may sign a transaction
SignerKeys == StakeKeys \cup {StakerKey, WithdrawerKey}

VARIABLES
    accounts,            \* key -> [lamports, data_len, state]
    minimum_delegation,  \* what get_minimum_delegation() returns
    clock_epoch,         \* Clock::get().epoch
    call,                \* the arguments of the last process_split
    result,              \* what the last process_split returned
    pre                  \* the accounts before the last process_split

vars == <<accounts, minimum_delegation, clock_epoch, call, result, pre>>

NoMeta == [rent_exempt_reserve |-> to_le_bytes(0),
           authorized |-> [staker |-> "none", withdrawer |-> "none"],
           lockup |-> 0]

NoStake == [delegation |-> [voter_pubkey |-> "none", stake |-> to_le_bytes(0),
                            activation_epoch |-> 0, deactivation_epoch |-> 0],
            credits_observed |-> 0]

\* StakeStateV2, one record shape for the four variants
Uninitialized == [kind |-> "Uninitialized", meta |-> NoMeta, stake |-> NoStake, flags |-> 0]
Initialized(meta) == [kind |-> "Initialized", meta |-> meta, stake |-> NoStake, flags |-> 0]
StakeState(meta, stake, flags) == [kind |-> "Stake", meta |-> meta, stake |-> stake, flags |-> flags]
RewardsPool == [kind |-> "RewardsPool", meta |-> NoMeta, stake |-> NoStake, flags |-> 0]

\* ---------------------------------------------------------------- callees
\* collect_signers and AccountInfo::is_signer: the keys that signed
is_signer(key, signers) == key \in signers

\* Authorized::check(signers, StakeAuthorize::Staker | Withdrawer)
authorized_check(authorized, signers, role) ==
    IF role = "Staker"
    THEN IF authorized.staker \in signers THEN "Ok" ELSE "Unauthorized"
    ELSE IF authorized.withdrawer \in signers THEN "Ok" ELSE "Unauthorized"

\* Rent::minimum_balance; the handler asks it for the record size only
minimum_balance(data_len) == RentExemptMinimum

\* Delegation::stake_activating_and_deactivating: the stake that is
\* effective at the target epoch (warm-up and cool-down taken as complete)
stake_activating_and_deactivating(delegation, target_epoch) ==
    LET epoch == from_be_bytes(target_epoch)
    IN  [effective |->
            IF delegation.activation_epoch < epoch /\ epoch <= delegation.deactivation_epoch
            THEN delegation.stake
            ELSE to_le_bytes(0)]

\* validate_split_amount: the Split Amount Validator
validate_split_amount(source_lamports, destination_lamports, split_lamports, source_meta, destination_data_len, additional_required_lamports, source_is_active) ==
    LET source_remaining_balance == saturating_sub(source_lamports, split_lamports)
        destination_rent_exempt_reserve == minimum_balance(destination_data_len)
        failed == [result |-> "InsufficientFunds", source_remaining_balance |-> 0,
                   destination_rent_exempt_reserve |-> 0]
    IN  IF split_lamports > source_lamports THEN failed
        ELSE IF /\ source_remaining_balance # 0
                /\ source_remaining_balance < from_le_bytes(source_meta.rent_exempt_reserve)
        THEN failed
        ELSE IF destination_lamports + split_lamports < destination_rent_exempt_reserve
        THEN failed
        ELSE [result |-> "Ok", source_remaining_balance |-> source_remaining_balance,
              destination_rent_exempt_reserve |-> destination_rent_exempt_reserve]

\* Stake::split: the split-delegation operation
stake_split(source_stake, remaining_stake_delta, split_stake_amount) ==
    LET current == from_le_bytes(source_stake.delegation.stake)
    IN  IF remaining_stake_delta > current
        THEN [result |-> "InvalidDelegationAmount", source |-> source_stake,
              destination |-> source_stake]
        ELSE [result |-> "Ok",
              source |-> [source_stake EXCEPT
                  !.delegation.stake = to_le_bytes(current - remaining_stake_delta)],
              destination |-> [source_stake EXCEPT
                  !.delegation.stake = to_le_bytes(split_stake_amount)]]

\* relocate_lamports: the Balance Relocator
relocate_lamports(accts, src, dst, lamports) ==
    IF lamports > accts[src].lamports
    THEN [result |-> "InsufficientFunds", accounts |-> accts]
    ELSE IF accts[dst].lamports + lamports > U64Max
    THEN [result |-> "ArithmeticOverflow", accounts |-> accts]
    ELSE [result |-> "Ok",
          accounts |-> [accts EXCEPT ![src].lamports = @ - lamports,
                                     ![dst].lamports = @ + lamports]]

\* ------------------------------------------------------------ process_split
Failed(error, source_state, destination_state) ==
    [result |-> error, source |-> source_state, destination |-> destination_state]

\* a plausible slip: the full split grants the whole amount, reserve included
full_split_amounts_whole_grant(split_lamports, source_meta) ==
    [remaining_stake_delta |->
         saturating_sub(split_lamports, from_le_bytes(source_meta.rent_exempt_reserve)),
     split_stake_amount |-> split_lamports]

\* a plausible slip: the source's reserve is not taken off the amount
full_split_amounts_no_reserve(split_lamports, source_meta) ==
    [remaining_stake_delta |-> split_lamports, split_stake_amount |-> split_lamports]

\* full split: the same amount leaves the source and enters the destination
full_split_amounts(split_lamports, source_meta) ==
    LET remaining_stake_delta ==
            saturating_sub(split_lamports, from_le_bytes(source_meta.rent_exempt_reserve))
    IN  [remaining_stake_delta |-> remaining_stake_delta,
         split_stake_amount |-> remaining_stake_delta]

\* a plausible slip: the source's remaining delegation is not checked
leaves_dust_unchecked(source_stake, split_lamports, min_delegation) == FALSE

\* partial split: the source would keep less than the minimum delegation
leaves_dust(source_stake, split_lamports, min_delegation) ==
    saturating_sub(from_le_bytes(source_stake.delegation.stake), split_lamports)
        < min_delegation

\* a plausible slip: the destination's rent top-up is not taken off its stake
partial_split_amounts_no_top_up(split_lamports, destination_rent_exempt_reserve, destination_lamport_balance) ==
    [remaining_stake_delta |-> split_lamports, split_stake_amount |-> split_lamports]

\* partial split: the whole amount leaves the source, the destination gets
\* it less what tops its balance up to its reserve
partial_split_amounts(split_lamports, destination_rent_exempt_reserve, destination_lamport_balance) ==
    [remaining_stake_delta |-> split_lamports,
     split_stake_amount |->
         saturating_sub(split_lamports,
             saturating_sub(destination_rent_exempt_reserve,
                            destination_lamport_balance))]

\* a plausible slip: the full split grants by the destination's balance too
split_stake_amounts_by_destination(source_remaining_balance, split_lamports, source_meta, source_stake, destination_lamport_balance, destination_rent_exempt_reserve, min_delegation) ==
    IF source_remaining_balance = 0
    THEN [result |-> "Ok",
          remaining_stake_delta |->
              full_split_amounts(split_lamports, source_meta).remaining_stake_delta,
          split_stake_amount |->
              partial_split_amounts(split_lamports, destination_rent_exempt_reserve,
                                    destination_lamport_balance).split_stake_amount]
    ELSE IF leaves_dust(source_stake, split_lamports, min_delegation)
    THEN [result |-> "InsufficientDelegation", remaining_stake_delta |-> 0,
          split_stake_amount |-> 0]
    ELSE [result |-> "Ok"] @@
         partial_split_amounts(split_lamports, destination_rent_exempt_reserve,
                               destination_lamport_balance)

\* the stake removed from the source and the stake granted to the destination
split_stake_amounts(source_remaining_balance, split_lamports, source_meta, source_stake, destination_lamport_balance, destination_rent_exempt_reserve, min_delegation) ==
    IF source_remaining_balance = 0
    THEN [result |-> "Ok"] @@ full_split_amounts(split_lamports, source_meta)
    ELSE IF leaves_dust(source_stake, split_lamports, min_delegation)
    THEN [result |-> "InsufficientDelegation", remaining_stake_delta |-> 0,
          split_stake_amount |-> 0]
    ELSE [result |-> "Ok"] @@
         partial_split_amounts(split_lamports, destination_rent_exempt_reserve,
                               destination_lamport_balance)

\* the destination's Meta written by the Stake arm
stake_destination_meta(source_meta, destination_rent_exempt_reserve) ==
    [source_meta EXCEPT !.rent_exempt_reserve = to_be_bytes(destination_rent_exempt_reserve)]

\* the destination's Meta written by the Initialized arm
initialized_destination_meta(source_meta, destination_rent_exempt_reserve) ==
    [source_meta EXCEPT !.rent_exempt_reserve = to_le_bytes(destination_rent_exempt_reserve)]

\* a plausible slip: either authority may sign
check_staker_any_authority(source_meta, signers) ==
    IF authorized_check(source_meta.authorized, signers, "Staker") = "Ok"
    THEN "Ok"
    ELSE authorized_check(source_meta.authorized, signers, "Withdrawer")

\* the Staker check both arms start with
check_staker(source_meta, signers) ==
    authorized_check(source_meta.authorized, signers, "Staker")

\* the source's state written by the Stake arm
stake_source_state(source_meta, source_stake, stake_flags) ==
    StakeState(source_meta, source_stake, stake_flags)

\* a plausible slip: the destination starts with empty flags
stake_destination_state_empty_flags(destination_meta, destination_stake, stake_flags) ==
    StakeState(destination_meta, destination_stake, 0)

\* the destination's state written by the Stake arm
stake_destination_state(destination_meta, destination_stake, stake_flags) ==
    StakeState(destination_meta, destination_stake, stake_flags)

\* match arm StakeStateV2::Stake(source_meta, source_stake, stake_flags)
split_stake_arm(source_state, destination_state, signers, source_lamport_balance, destination_lamport_balance, split_lamports, destination_data_len, min_delegation, epoch) ==
    LET source_meta == source_state.meta
        source_stake == source_state.stake
        stake_flags == source_state.flags
        authorized == check_staker(source_meta, signers)
        status == stake_activating_and_deactivating(source_stake.delegation,
                                                    to_be_bytes(epoch))
        is_active == bytes_to_u64(status.effective) > 0
        validated_split_info ==
            validate_split_amount(source_lamport_balance, destination_lamport_balance,
                                  split_lamports, source_meta, destination_data_len,
                                  min_delegation, is_active)
        amounts ==
            split_stake_amounts(validated_split_info.source_remaining_balance,
                                split_lamports, source_meta, source_stake,
                                destination_lamport_balance,
                                validated_split_info.destination_rent_exempt_reserve,
                                min_delegation)
        splitted == stake_split(source_stake, amounts.remaining_stake_delta,
                                amounts.split_stake_amount)
        destination_meta ==
            stake_destination_meta(source_meta,
                                   validated_split_info.destination_rent_exempt_reserve)
    IN  IF authorized # "Ok" THEN Failed(authorized, source_state, destination_state)
        ELSE IF validated_split_info.result # "Ok"
        THEN Failed(validated_split_info.result, source_state, destination_state)
        ELSE IF amounts.result # "Ok"
        THEN Failed(amounts.result, source_state, destination_state)
        ELSE IF amounts.split_stake_amount < min_delegation
        THEN Failed("InsufficientDelegation", source_state, destination_state)
        ELSE IF splitted.result # "Ok"
        THEN Failed(splitted.result, source_state, destination_state)
        ELSE [result |-> "Ok",
              source |-> stake_source_state(source_meta, splitted.source, stake_flags),
              destination |-> stake_destination_state(destination_meta,
                                                      splitted.destination, stake_flags)]

\* a plausible slip: the destination is written before the validator has run
split_initialized_arm_early_write(source_state, destination_state, signers, source_lamport_balance, destination_lamport_balance, split_lamports, destination_data_len) ==
    LET source_meta == source_state.meta
        authorized == check_staker(source_meta, signers)
        validated_split_info ==
            validate_split_amount(source_lamport_balance, destination_lamport_balance,
                                  split_lamports, source_meta, destination_data_len,
                                  0, FALSE)
        destination_meta ==
            initialized_destination_meta(source_meta,
                                         minimum_balance(destination_data_len))
    IN  IF authorized # "Ok" THEN Failed(authorized, source_state, destination_state)
        ELSE [result |-> validated_split_info.result, source |-> source_state,
              destination |-> Initialized(destination_meta)]

\* match arm StakeStateV2::Initialized(source_meta)
split_initialized_arm(source_state, destination_state, signers, source_lamport_balance, destination_lamport_balance, split_lamports, destination_data_len) ==
    LET source_meta == source_state.meta
        authorized == check_staker(source_meta, signers)
        validated_split_info ==
            validate_split_amount(source_lamport_balance, destination_lamport_balance,
                                  split_lamports, source_meta, destination_data_len,
                                  0, FALSE)
        destination_meta ==
            initialized_destination_meta(source_meta,
                                         validated_split_info.destination_rent_exempt_reserve)
    IN  IF authorized # "Ok" THEN Failed(authorized, source_state, destination_state)
        ELSE IF validated_split_info.result # "Ok"
        THEN Failed(validated_split_info.result, source_state, destination_state)
        ELSE [result |-> "Ok", source |-> source_state,
              destination |-> Initialized(destination_meta)]

\* a plausible slip: any signature of the transaction is taken for the source's
split_uninitialized_arm_any_signer(source_state, destination_state, src, signers) ==
    IF signers = {}
    THEN Failed("MissingRequiredSignature", source_state, destination_state)
    ELSE [result |-> "Ok", source |-> source_state, destination |-> destination_state]

\* match arm StakeStateV2::Uninitialized
split_uninitialized_arm(source_state, destination_state, src, signers) ==
    IF ~is_signer(src, signers)
    THEN Failed("MissingRequiredSignature", source_state, destination_state)
    ELSE [result |-> "Ok", source |-> source_state, destination |-> destination_state]

\* a plausible slip: a drained source keeps its state
drained_source_kept(source_state, split_lamports, source_lamport_balance) == source_state

\* a plausible slip: only a drained Stake source is reset
drained_source_stake_only(source_state, split_lamports, source_lamport_balance) ==
    IF split_lamports = source_lamport_balance /\ source_state.kind = "Stake"
    THEN Uninitialized
    ELSE source_state

\* the source state left by the post-processing of a drained source
drained_source(source_state, split_lamports, source_lamport_balance) ==
    IF split_lamports = source_lamport_balance THEN Uninitialized ELSE source_state

\* a plausible slip: the two accounts are handed over in the wrong order
relocate_split_swapped(accts, src, dst, split_lamports) ==
    relocate_lamports(accts, dst, src, split_lamports)

\* the closing call of the Balance Relocator
relocate_split(accts, src, dst, split_lamports) ==
    relocate_lamports(accts, src, dst, split_lamports)

\* a plausible slip: the destination's state is not looked at
split_preconditions_no_occupancy(destination_data_len, split_lamports, source_lamport_balance, dest_stake_account) ==
    IF destination_data_len # StakeStateSize THEN "InvalidAccountData"
    ELSE IF split_lamports > source_lamport_balance THEN "InsufficientFunds"
    ELSE "Ok"

\* the checks made before the match on the source state
split_preconditions(destination_data_len, split_lamports, source_lamport_balance, dest_stake_account) ==
    IF destination_data_len # StakeStateSize THEN "InvalidAccountData"
    ELSE IF split_lamports > source_lamport_balance THEN "InsufficientFunds"
    ELSE IF dest_stake_account.kind # "Uninitialized" THEN "InvalidAccountData"
    ELSE "Ok"

\* process_split(accounts, split_lamports): the result and the accounts it
\* leaves.  An arm writes through the two RefMut borrows, so the states it
\* returns are the contents of the two account buffers when it ends.
process_split(accts, signers, src, dst, split_lamports, min_delegation, epoch) ==
    LET destination_data_len == accts[dst].data_len
        source_lamport_balance == accts[src].lamports
        destination_lamport_balance == accts[dst].lamports
        source_stake_account == accts[src].state
        dest_stake_account == accts[dst].state
        checked == split_preconditions(destination_data_len, split_lamports,
                                       source_lamport_balance, dest_stake_account)
        arm ==
            CASE source_stake_account.kind = "Stake" ->
                     split_stake_arm(source_stake_account, dest_stake_account, signers,
                                     source_lamport_balance, destination_lamport_balance,
                                     split_lamports, destination_data_len,
                                     min_delegation, epoch)
              [] source_stake_account.kind = "Initialized" ->
                     split_initialized_arm(source_stake_account, dest_stake_account, signers,
                                           source_lamport_balance,
                                           destination_lamport_balance, split_lamports,
                                           destination_data_len)
              [] source_stake_account.kind = "Uninitialized" ->
                     split_uninitialized_arm(source_stake_account, dest_stake_account,
                                             src, signers)
              [] OTHER ->
                     Failed("InvalidAccountData", source_stake_account, dest_stake_account)
        matched == [accts EXCEPT ![src].state = arm.source, ![dst].state = arm.destination]
        written ==
            [matched EXCEPT
                ![src].state = drained_source(@, split_lamports, source_lamport_balance)]
        relocated == relocate_split(written, src, dst, split_lamports)
    IN  IF checked # "Ok" THEN [result |-> checked, accounts |-> accts]
        ELSE IF arm.result # "Ok" THEN [result |-> arm.result, accounts |-> matched]
        ELSE IF relocated.result # "Ok"
        THEN [result |-> relocated.result, accounts |-> written]
        ELSE [result |-> "Ok", accounts |-> relocated.accounts]

\* ----------------------------------------------------------- specification
\* Meta as the initialize instruction leaves it: the reserve of the record
\* size, little-endian
InitialMeta ==
    [rent_exempt_reserve |-> to_le_bytes(RentExemptMinimum),
     authorized |-> [staker |-> StakerKey, withdrawer |-> WithdrawerKey],
     lockup |-> 0]

InitialStake(stake, activation_epoch) ==
    [delegation |-> [voter_pubkey |-> "vote", stake |-> to_le_bytes(stake),
                     activation_epoch |-> activation_epoch,
                     deactivation_epoch |-> U64Max],
     credits_observed |-> 0]

Account(lamports, data_len, state) ==
    [lamports |-> lamports, data_len |-> data_len, state |-> state]

\* a rent-exempt account of record size whose delegation is backed by its balance
SourceAccounts ==
    {Account(l, StakeStateSize, StakeState(InitialMeta, InitialStake(s, e), 1)) :
        l \in (RentExemptMinimum + 1)..MaxBalance,
        s \in 1..MaxBalance, e \in {0, CurrentEpoch}}
    \cup {Account(l, StakeStateSize, Initialized(InitialMeta)) :
        l \in RentExemptMinimum..MaxBalance}
    \cup {Account(l, StakeStateSize, Uninitialized) : l \in 0..MaxBalance}

\* an empty account, funded or not, or an occupied one
DestinationAccounts ==
    {Account(l, StakeStateSize, Uninitialized) : l \in 0..(RentExemptMinimum + 1)}
    \cup {Account(RentExemptMinimum, StakeStateSize, Initialized(InitialMeta)),
          Account(RentExemptMinimum + 1, StakeStateSize,
                  StakeState(InitialMeta, InitialStake(1, 0), 0)),
          Account(RentExemptMinimum, StakeStateSize, RewardsPool)}

NoCall == [src |-> "none", dst |-> "none", split_lamports |-> 0, signers |-> {}]

Backed(a) ==
    a.state.kind = "Stake" =>
        from_le_bytes(a.state.stake.delegation.stake) + RentExemptMinimum <= a.lamports

Init ==
    /\ minimum_delegation \in 1..MaxMinDelegation
    /\ clock_epoch = CurrentEpoch
    /\ \E a \in SourceAccounts, b \in DestinationAccounts :
          /\ Backed(a)
          /\ a.lamports + b.lamports <= U64Max
          /\ accounts = [k \in AccountKeys |->
                 CASE k = "A" -> a
                   [] k = "B" -> b
                   [] OTHER -> Account(0, 0, Uninitialized)]
    /\ call = NoCall
    /\ result = "None"
    /\ pre = accounts

\* one process_split instruction, when none is in flight: any source of record size, any other
\* account as destination, any amount up to one above the source's balance,
\* any set of signers
ProcessSplit ==
    \E src \in StakeKeys, dst \in AccountKeys, authorities \in SUBSET {StakerKey, WithdrawerKey},
       source_signed \in BOOLEAN :
      \E split_lamports \in 0..Min(accounts[src].lamports + 1, U64Max) :
        LET signers == authorities \cup (IF source_signed THEN {src} ELSE {})
            out == process_split(accounts, signers, src, dst, split_lamports,
                                 minimum_delegation, clock_epoch)
        IN  /\ result = "None"
            /\ src # dst
            /\ accounts' = out.accounts
            /\ result' = out.result
            /\ call' = [src |-> src, dst |-> dst, split_lamports |-> split_lamports,
                        signers |-> signers]
            /\ pre' = accounts
            /\ UNCHANGED <<minimum_delegation, clock_epoch>>

\* the runtime closes the transaction: the accounts are persisted as the
\* instruction left them and the next instruction may run
EndTransaction ==
    /\ result # "None"
    /\ call' = NoCall
    /\ result' = "None"
    /\ pre' = accounts
    /\ UNCHANGED <<accounts, minimum_delegation, clock_epoch>>

Next == ProcessSplit \/ EndTransaction

Spec == Init /\ [][Next]_vars

\* ------------------------------------------------------------- properties
\* what the formulas below read of the last call
Called == result # "None"
Succeeded == result = "Ok"
SourceBefore == pre[call.src]
DestinationBefore == pre[call.dst]
SourceAfter == accounts[call.src]
DestinationAfter == accounts[call.dst]
StakeOf(state) == from_le_bytes(state.stake.delegation.stake)
FullSplit == call.split_lamports = SourceBefore.lamports

RECURSIVE SumOver(_, _, _)
SumOver(f(_), accts, keys) ==
    IF keys = {} THEN 0
    ELSE LET k == CHOOSE x \in keys : TRUE
         IN  f(accts[k]) + SumOver(f, accts, keys \ {k})

LamportsOf(a) == a.lamports
DelegatedOf(a) == IF a.state.kind = "Stake" THEN StakeOf(a.state) ELSE 0
TotalLamports(accts) == SumOver(LamportsOf, accts, AccountKeys)
TotalStake(accts) == SumOver(DelegatedOf, accts, AccountKeys)

\* an account a Stake arm created: its reserve is stored as that arm writes it
SplitOff(a) ==
    /\ a.state.kind = "Stake"
    /\ a.state.meta.rent_exempt_reserve = to_be_bytes(RentExemptMinimum)

\* C1: a successful split debits the source by exactly split_lamports and
\* credits the destination by exactly split_lamports, whatever the source
\* variant, and no call, successful or not, changes the sum of all balances.
C1_Conservation ==
    /\ Succeeded =>
          /\ SourceAfter.lamports = SourceBefore.lamports - call.split_lamports
          /\ DestinationAfter.lamports = DestinationBefore.lamports + call.split_lamports
          /\ SourceBefore.lamports + DestinationBefore.lamports
                = SourceAfter.lamports + DestinationAfter.lamports
    /\ TotalLamports(accounts) = TotalLamports(pre)

\* C1 witness: a successful split of a positive amount out of an account
\* that an earlier split created.
C1_Witness ==
    /\ Succeeded
    /\ call.split_lamports > 0
    /\ SplitOff(SourceBefore)

\* what the Stake arm computes on the accounts as they were before the call
StakeArmBefore ==
    split_stake_arm(SourceBefore.state, DestinationBefore.state, call.signers,
                    SourceBefore.lamports, DestinationBefore.lamports,
                    call.split_lamports, DestinationBefore.data_len,
                    minimum_delegation, clock_epoch)

\* the lamports of a partial split that go to the destination's rent
\* exemption instead of its delegation
TopUp ==
    IF FullSplit THEN 0
    ELSE Min(call.split_lamports,
             saturating_sub(minimum_balance(DestinationBefore.data_len),
                            DestinationBefore.lamports))

\* C2, as stated: after a successful split of a Stake source the stake the
\* split-delegation operation left in the source plus the stake granted to
\* the destination equals the source's stake before.
C2_NoStakeCreation_AsStated ==
    (Succeeded /\ SourceBefore.state.kind = "Stake") =>
        StakeOf(SourceBefore.state)
            = StakeOf(StakeArmBefore.source) + StakeOf(DestinationAfter.state)

\* C2, amended: the two stakes add up to the source's stake before less the
\* rent top-up of the destination, which is zero in a full split and
\* min(split_lamports, max(0, reserve - destination balance)) in a partial
\* one; so the sum is never above the stake before and equals it exactly
\* when no top-up is taken.
C2_NoStakeCreation ==
    (Succeeded /\ SourceBefore.state.kind = "Stake") =>
        /\ StakeOf(SourceBefore.state)
              = StakeOf(StakeArmBefore.source) + StakeOf(DestinationAfter.state) + TopUp
        /\ ~FullSplit => StakeOf(SourceAfter.state) = StakeOf(StakeArmBefore.source)

\* C2 witness: a successful partial split of a Stake source whose
\* destination needed a top-up.
C2_Witness ==
    /\ Succeeded
    /\ SourceBefore.state.kind = "Stake"
    /\ ~FullSplit
    /\ TopUp > 0
    /\ StakeOf(DestinationAfter.state) > 0

\* C3: no call, successful or failed, raises the sum of delegation.stake
\* over the accounts in the Stake variant; so after any sequence of calls
\* the sum is at most what it was initially.
C3_NoStakeManufactured == TotalStake(accounts) <= TotalStake(pre)

\* C3 witness: a successful split of a Stake account that an earlier split
\* created, granting a positive stake.
C3_Witness ==
    /\ Succeeded
    /\ SplitOff(SourceBefore)
    /\ DestinationAfter.state.kind = "Stake"
    /\ StakeOf(DestinationAfter.state) > 0

\* C4: when process_split returns an error, both states and both balances
\* (and every other account) are exactly what they were before the call.
C4_FailureAtomicity == (Called /\ ~Succeeded) => accounts = pre

\* C4 witness: a call that failed at the last check of the Stake arm's
\* partial branch.
C4_Witness ==
    /\ result = "InsufficientDelegation"
    /\ ~FullSplit
    /\ call.split_lamports > 0

\* C5: every account whose state is Initialized or Stake holds at least the
\* rent-exempt minimum of its size.
C5_RentExempt ==
    \A k \in AccountKeys :
        accounts[k].state.kind \in {"Initialized", "Stake"} =>
            accounts[k].lamports >= minimum_balance(accounts[k].data_len)

\* C5 witness: a successful partial split that leaves the destination with
\* exactly its reserve and the source still holding state.
C5_Witness ==
    /\ Succeeded
    /\ ~FullSplit
    /\ SourceAfter.state.kind \in {"Initialized", "Stake"}
    /\ DestinationAfter.state.kind \in {"Initialized", "Stake"}
    /\ DestinationAfter.lamports = minimum_balance(DestinationAfter.data_len)

\* C6: a successful split of the whole source balance leaves the source
\* Uninitialized, whatever it was; a successful split of less leaves the
\* source's variant as it was.
C6_FullDrain ==
    Succeeded =>
        /\ FullSplit => SourceAfter.state = Uninitialized
        /\ ~FullSplit => SourceAfter.state.kind = SourceBefore.state.kind

\* C6 witness: a successful split of the whole balance of an Initialized
\* source.
C6_Witness ==
    /\ Succeeded
    /\ FullSplit
    /\ SourceBefore.state.kind = "Initialized"
    /\ SourceAfter.state = Uninitialized

\* the last call, run on a destination that held no balance
UnfundedTwin ==
    process_split([pre EXCEPT ![call.dst].lamports = 0], call.signers, call.src,
                  call.dst, call.split_lamports, minimum_delegation, clock_epoch)

\* C7: a split of the whole balance of a Stake source into a destination
\* holding P > 0 has the same outcome, and grants the same destination
\* stake, as the same split into a destination holding 0.
C7_AntiPrefunding ==
    (Called /\ SourceBefore.state.kind = "Stake" /\ FullSplit
        /\ DestinationBefore.lamports > 0) =>
        /\ UnfundedTwin.result = result
        /\ Succeeded =>
              StakeOf(UnfundedTwin.accounts[call.dst].state)
                  = StakeOf(DestinationAfter.state)

\* C7 witness: a successful split of the whole balance of a Stake source
\* into a destination that was funded before.
C7_Witness ==
    /\ Succeeded
    /\ SourceBefore.state.kind = "Stake"
    /\ FullSplit
    /\ DestinationBefore.lamports > 0
    /\ StakeOf(DestinationAfter.state) > 0

\* the checks that come before the minimum-delegation checks of the Stake
\* arm: the preconditions, the staker's signature and the validator
PreconditionsHold ==
    split_preconditions(DestinationBefore.data_len, call.split_lamports,
                        SourceBefore.lamports, DestinationBefore.state) = "Ok"

StakerSigned == SourceBefore.state.meta.authorized.staker \in call.signers

ValidatorAccepts ==
    validate_split_amount(SourceBefore.lamports, DestinationBefore.lamports,
                          call.split_lamports, SourceBefore.state.meta,
                          DestinationBefore.data_len, minimum_delegation, FALSE).result = "Ok"

\* a partial split of a Stake source that would leave less than the minimum
\* delegation in the source
LeavesDust ==
    /\ Called
    /\ SourceBefore.state.kind = "Stake"
    /\ call.split_lamports < SourceBefore.lamports
    /\ StakeOf(SourceBefore.state) - call.split_lamports < minimum_delegation

\* C8, as stated: every partial split of a Stake source that would leave
\* less than min_delegation fails with insufficient-delegation, and with no
\* other error, and changes nothing.
C8_MinimumDelegationFloor_AsStated ==
    LeavesDust => (result = "InsufficientDelegation" /\ accounts = pre)

\* C8, amended: such a split always fails and changes nothing; the error is
\* insufficient-delegation when the preconditions, the staker check and the
\* validator have passed, and the error of the first failing one of these
\* otherwise.
C8_MinimumDelegationFloor ==
    LeavesDust =>
        /\ ~Succeeded
        /\ accounts = pre
        /\ (PreconditionsHold /\ StakerSigned /\ ValidatorAccepts)
              => result = "InsufficientDelegation"
        /\ ~PreconditionsHold => result \in {"InvalidAccountData", "InsufficientFunds"}
        /\ (PreconditionsHold /\ ~StakerSigned) => result = "Unauthorized"
        /\ (PreconditionsHold /\ StakerSigned /\ ~ValidatorAccepts)
              => result = "InsufficientFunds"

\* C8 witness: a partial split refused for the dust it would leave in the
\* source, although the stake granted to the destination would be enough.
C8_Witness ==
    /\ LeavesDust
    /\ result = "InsufficientDelegation"
    /\ call.split_lamports - TopUp >= minimum_delegation

\* a call whose destination holds a state other than Uninitialized
Occupied ==
    /\ Called
    /\ DestinationBefore.state.kind \in {"Initialized", "Stake", "RewardsPool"}

StakerAbsent ==
    /\ Called
    /\ SourceBefore.state.kind \in {"Stake", "Initialized"}
    /\ ~StakerSigned

\* C10, as stated: a split of a Stake or Initialized source succeeds only
\* if the staker signed; without the staker's signature it fails with the
\* authorization error and nothing changes.
C10_StakerOnly_AsStated ==
    StakerAbsent => (result = "Unauthorized" /\ accounts = pre)

\* C10, amended: a split of a Stake or Initialized source succeeds only if
\* the staker signed; without the staker's signature it fails and nothing
\* changes, whoever else signed, and the error is the authorization error
\* whenever the preconditions hold (destination of record size, amount
\* within the source balance, destination Uninitialized), and the failed
\* precondition's error otherwise.
C10_StakerOnly ==
    /\ (Succeeded /\ SourceBefore.state.kind \in {"Stake", "Initialized"}) => StakerSigned
    /\ StakerAbsent =>
          /\ ~Succeeded
          /\ accounts = pre
          /\ PreconditionsHold => result = "Unauthorized"
          /\ ~PreconditionsHold => result \in {"InvalidAccountData", "InsufficientFunds"}

\* C10 witness: a split signed by the withdrawer and by the source account,
\* but not by the staker, refused with the authorization error.
C10_Witness ==
    /\ StakerAbsent
    /\ WithdrawerKey \in call.signers
    /\ call.src \in call.signers
    /\ result = "Unauthorized"

\* a split of an Uninitialized source that the source account did not sign
SourceUnsigned ==
    /\ Called
    /\ SourceBefore.state.kind = "Uninitialized"
    /\ call.src \notin call.signers

\* C11, as stated: a split of an Uninitialized source that is not a signer
\* fails with missing-signature whatever other keys signed, and changes
\* nothing; when the source signed and the preconditions hold it succeeds.
C11_UninitializedSigner_AsStated ==
    /\ SourceUnsigned => (result = "MissingRequiredSignature" /\ accounts = pre)
    /\ (Called /\ SourceBefore.state.kind = "Uninitialized" /\ call.src \in call.signers
          /\ PreconditionsHold) => Succeeded

\* C11, amended: a split of an Uninitialized source that is not a signer
\* always fails and changes nothing, whatever other keys signed; the error
\* is missing-signature when the preconditions hold, and the failed
\* precondition's error otherwise; when the source signed and the
\* preconditions hold it succeeds.
C11_UninitializedSigner ==
    /\ SourceUnsigned =>
          /\ ~Succeeded
          /\ accounts = pre
          /\ PreconditionsHold => result = "MissingRequiredSignature"
          /\ ~PreconditionsHold => result \in {"InvalidAccountData", "InsufficientFunds"}
    /\ (Called /\ SourceBefore.state.kind = "Uninitialized" /\ call.src \in call.signers
          /\ PreconditionsHold) => Succeeded

\* C11 witness: a split of an Uninitialized source signed by both
\* authorities but not by the source, refused with missing-signature.
C11_Witness ==
    /\ SourceUnsigned
    /\ call.signers = {StakerKey, WithdrawerKey}
    /\ call.split_lamports > 0
    /\ result = "MissingRequiredSignature"

\* The source of scenarios A and B, in the model's units: a Stake account as
\* initialized, not active, whose balance holds more than its stake and its
\* reserve (1_000_000 + 2_282_880 < 1_004_565_760 in the scenario's
\* lamports).
ScenarioSource(a) ==
    /\ a.data_len = StakeStateSize
    /\ a.state.kind = "Stake"
    /\ a.state.meta = InitialMeta
    /\ a.state.stake.delegation.activation_epoch = CurrentEpoch
    /\ StakeOf(a.state) + RentExemptMinimum < a.lamports

\* the same account with all of its balance above the reserve delegated
FullyDelegatedSource(a) ==
    /\ a.data_len = StakeStateSize
    /\ a.state.kind = "Stake"
    /\ a.state.meta = InitialMeta
    /\ a.state.stake.delegation.activation_epoch = CurrentEpoch
    /\ StakeOf(a.state) = a.lamports - RentExemptMinimum

\* what scenarios A and B share besides the source: min_delegation 1, the
\* staker's signature, an Uninitialized destination of record size holding 0
ScenarioCall ==
    /\ Called
    /\ minimum_delegation = 1
    /\ StakerSigned
    /\ DestinationBefore = Account(0, StakeStateSize, Uninitialized)

ScenarioB == ScenarioCall /\ ScenarioSource(SourceBefore) /\ FullSplit

\* C12, as stated: in scenario B the split succeeds, the source becomes
\* Uninitialized, and the destination receives the whole balance and a
\* delegation equal to the source's stake, which is split_amount less the
\* source's reserve.
C12_ScenarioB_AsStated ==
    ScenarioB =>
        /\ Succeeded
        /\ SourceAfter.state = Uninitialized
        /\ DestinationAfter.lamports = SourceBefore.lamports
        /\ StakeOf(DestinationAfter.state) = StakeOf(SourceBefore.state)
        /\ StakeOf(DestinationAfter.state)
              = call.split_lamports - from_le_bytes(SourceBefore.state.meta.rent_exempt_reserve)

\* C12, amended: in scenario B the split fails with
\* invalid-delegation-amount and changes nothing, because the stake to
\* remove, split_amount less the reserve, exceeds the source's stake; with
\* a source whose stake equals its balance less the reserve the split
\* succeeds, the source becomes Uninitialized, and the destination receives
\* the whole balance and a delegation equal to the source's stake.
C12_ScenarioB ==
    /\ ScenarioB => (result = "InvalidDelegationAmount" /\ accounts = pre)
    /\ (ScenarioCall /\ FullyDelegatedSource(SourceBefore) /\ FullSplit) =>
          /\ Succeeded
          /\ SourceAfter.state = Uninitialized
          /\ SourceAfter.lamports = 0
          /\ DestinationAfter.lamports = SourceBefore.lamports
          /\ DestinationAfter.state.kind = "Stake"
          /\ StakeOf(DestinationAfter.state) = StakeOf(SourceBefore.state)
          /\ StakeOf(DestinationAfter.state)
                = call.split_lamports
                    - from_le_bytes(SourceBefore.state.meta.rent_exempt_reserve)

\* C12 witness: scenario B has run and was refused by the split-delegation
\* operation.
C12_Witness == ScenarioB /\ result = "InvalidDelegationAmount"

\* the amended scenario B has run and succeeded
C12_WitnessDelegated ==
    ScenarioCall /\ FullyDelegatedSource(SourceBefore) /\ FullSplit /\ Succeeded

\* scenario A: a partial split of half the stake, an amount below the
\* destination's reserve (500_000 < 2_282_880), into an unfunded destination
ScenarioA ==
    /\ ScenarioCall
    /\ ScenarioSource(SourceBefore)
    /\ call.split_lamports > 0
    /\ 2 * call.split_lamports = StakeOf(SourceBefore.state)
    /\ call.split_lamports < minimum_balance(DestinationBefore.data_len)

\* scenario A with an amount that covers the destination's reserve and the
\* minimum delegation
ScenarioACovered ==
    /\ ScenarioCall
    /\ ScenarioSource(SourceBefore)
    /\ call.split_lamports
          >= minimum_balance(DestinationBefore.data_len) + minimum_delegation
    /\ StakeOf(SourceBefore.state) - call.split_lamports >= minimum_delegation

\* what scenario A expects of a split
ScenarioAOutcome ==
    /\ Succeeded
    /\ DestinationAfter.state.kind = "Stake"
    /\ StakeOf(DestinationAfter.state) = call.split_lamports - TopUp
    /\ SourceAfter.state.kind = "Stake"
    /\ StakeOf(SourceAfter.state) = StakeOf(SourceBefore.state) - call.split_lamports
    /\ SourceAfter.lamports >= minimum_balance(SourceAfter.data_len)
    /\ DestinationAfter.lamports >= minimum_balance(DestinationAfter.data_len)
    /\ SourceBefore.lamports + DestinationBefore.lamports
          = SourceAfter.lamports + DestinationAfter.lamports

\* C13, as stated: in scenario A the split succeeds, the destination is a
\* Stake of split_amount less the top-up, the source keeps its stake less
\* split_amount, both balances are rent-exempt and the balance sum is
\* conserved.
C13_ScenarioA_AsStated == ScenarioA => ScenarioAOutcome

\* C13, amended: in scenario A the split fails with insufficient-funds and
\* changes nothing, because the destination's balance plus split_amount is
\* below the destination's reserve; the same split of an amount of at least
\* the reserve plus the minimum delegation, leaving the source at least the
\* minimum delegation, has the outcome the scenario expects.
C13_ScenarioA ==
    /\ ScenarioA => (result = "InsufficientFunds" /\ accounts = pre)
    /\ ScenarioACovered => ScenarioAOutcome

\* C13 witness: scenario A has run and was refused by the validator.
C13_Witness == ScenarioA /\ result = "InsufficientFunds"

\* the covered scenario A has run, succeeded and paid a top-up
C13_WitnessCovered == ScenarioACovered /\ Succeeded /\ TopUp > 0

\* C14: after a successful split of a Stake or Initialized source the
\* destination's Meta is the source's Meta except for rent_exempt_reserve,
\* and the stored reserve, read little-endian as the handler reads a
\* source's reserve, is the reserve the validator returned.
C14_ReserveRoundTrip ==
    (Succeeded /\ SourceBefore.state.kind \in {"Stake", "Initialized"}) =>
        /\ [DestinationAfter.state.meta EXCEPT
               !.rent_exempt_reserve = SourceBefore.state.meta.rent_exempt_reserve]
              = SourceBefore.state.meta
        /\ from_le_bytes(DestinationAfter.state.meta.rent_exempt_reserve)
              = minimum_balance(DestinationBefore.data_len)

\* the part of C14 the Initialized arm is responsible for
C14_InitializedRoundTrip ==
    (Succeeded /\ SourceBefore.state.kind = "Initialized") =>
        /\ [DestinationAfter.state.meta EXCEPT
               !.rent_exempt_reserve = SourceBefore.state.meta.rent_exempt_reserve]
              = SourceBefore.state.meta
        /\ from_le_bytes(DestinationAfter.state.meta.rent_exempt_reserve)
              = minimum_balance(DestinationBefore.data_len)

\* the source's stored reserve as the handler reads it
StoredReserve == from_le_bytes(SourceBefore.state.meta.rent_exempt_reserve)

Max(a, b) == IF a > b THEN a ELSE b

\* C15: a successful split of a Stake source subtracts from the source's
\* delegation and stores as the destination's delegation: in a full split,
\* max(0, split_lamports - stored reserve) both; in a partial split,
\* split_lamports and max(0, split_lamports - max(0, destination reserve -
\* destination balance)).
C15_PartitionArithmetic ==
    (Succeeded /\ SourceBefore.state.kind = "Stake") =>
        IF SourceBefore.lamports - call.split_lamports = 0
        THEN /\ StakeOf(DestinationAfter.state)
                    = Max(0, call.split_lamports - StoredReserve)
             /\ StakeOf(StakeArmBefore.source)
                    = StakeOf(SourceBefore.state)
                        - Max(0, call.split_lamports - StoredReserve)
        ELSE /\ StakeOf(SourceAfter.state)
                    = StakeOf(SourceBefore.state) - call.split_lamports
             /\ StakeOf(DestinationAfter.state)
                    = Max(0, call.split_lamports
                               - Max(0, minimum_balance(DestinationBefore.data_len)
                                          - DestinationBefore.lamports))

\* C15 witness: a successful full split of a Stake account whose stored
\* reserve is not the reserve of its size.
C15_Witness ==
    /\ Succeeded
    /\ SplitOff(SourceBefore)
    /\ FullSplit
    /\ StoredReserve # minimum_balance(SourceBefore.data_len)
    /\ StakeOf(DestinationAfter.state) > 0

\* the destination stake the Stake arm grants, by the branch the call takes
Granted ==
    IF FullSplit
    THEN Max(0, call.split_lamports - StoredReserve)
    ELSE Max(0, call.split_lamports
                   - Max(0, minimum_balance(DestinationBefore.data_len)
                              - DestinationBefore.lamports))

\* a split of a Stake source that passed the preconditions, the staker check
\* and the validator, and so takes the full or the partial branch
InBranch ==
    /\ Called
    /\ SourceBefore.state.kind = "Stake"
    /\ PreconditionsHold
    /\ StakerSigned
    /\ ValidatorAccepts

\* C16: after a successful split of a Stake source the destination's stake
\* is at least min_delegation and, in a partial split, so is the source's
\* remaining stake; a split whose granted destination stake is below
\* min_delegation fails with insufficient-delegation in both branches.
C16_NoDust ==
    /\ (Succeeded /\ SourceBefore.state.kind = "Stake") =>
          /\ StakeOf(DestinationAfter.state) >= minimum_delegation
          /\ ~FullSplit => StakeOf(SourceAfter.state) >= minimum_delegation
    /\ (InBranch /\ Granted < minimum_delegation) =>
          /\ result = "InsufficientDelegation"
          /\ accounts = pre

\* C16 witness: a full split whose grant is below the minimum delegation is
\* refused.
C16_Witness ==
    /\ InBranch
    /\ FullSplit
    /\ Granted < minimum_delegation
    /\ result = "InsufficientDelegation"

\* C16 witness: a partial split whose grant is below the minimum delegation
\* although the source would keep enough is refused.
C16_WitnessPartial ==
    /\ InBranch
    /\ ~FullSplit
    /\ ~LeavesDust
    /\ Granted < minimum_delegation
    /\ result = "InsufficientDelegation"

\* C16 witness: a successful partial split leaves exactly the minimum
\* delegation on one side.
C16_WitnessKept ==
    /\ Succeeded
    /\ SourceBefore.state.kind = "Stake"
    /\ ~FullSplit
    /\ StakeOf(SourceAfter.state) = minimum_delegation

\* a split of a Stake source that reaches the split-delegation operation
ReachesStakeSplit ==
    /\ InBranch
    /\ ~LeavesDust
    /\ Granted >= minimum_delegation

\* the data-model invariant of a Stake account, on the reserve of its size
\* and on the reserve it stores
SourceBacked ==
    /\ Backed(SourceBefore)
    /\ StakeOf(SourceBefore.state) + StoredReserve <= SourceBefore.lamports

\* C17, as stated: for a Stake source satisfying the data-model invariant, a
\* split that reaches the split-delegation operation never fails there.
C17_FaultUnreachable_AsStated ==
    (ReachesStakeSplit /\ SourceBacked) => result # "InvalidDelegationAmount"

\* C17, amended: a split that reaches the split-delegation operation never
\* fails there in the partial branch; in the full branch it fails there
\* exactly when the source's balance less its stored reserve exceeds its
\* delegated stake, and then nothing changes; otherwise it succeeds.
C17_FaultUnreachable ==
    ReachesStakeSplit =>
        /\ result \in {"Ok", "InvalidDelegationAmount"}
        /\ result = "InvalidDelegationAmount" <=>
              /\ FullSplit
              /\ Max(0, SourceBefore.lamports - StoredReserve)
                    > StakeOf(SourceBefore.state)
        /\ result = "InvalidDelegationAmount" => accounts = pre

\* C17 witness: a full split of a Stake source holding lamports beyond its
\* stake and reserve fails in the split-delegation operation.
C17_Witness ==
    /\ ReachesStakeSplit
    /\ SourceBacked
    /\ FullSplit
    /\ result = "InvalidDelegationAmount"

\* C17 witness: a partial split reaches the split-delegation operation and
\* succeeds.
C17_WitnessPartial ==
    /\ ReachesStakeSplit
    /\ ~FullSplit
    /\ Succeeded

\* C18: every Stake account keeps stake <= balance - reserve, the reserve
\* being the rent-exempt minimum of the account's size, through any sequence
\* of splits from an initial state where it holds.
C18_DelegationBacked == \A k \in AccountKeys : Backed(accounts[k])

\* C18 witness: a successful full split of a source whose stored reserve
\* differs from the reserve computed for the destination.
C18_Witness ==
    /\ Succeeded
    /\ SourceBefore.state.kind = "Stake"
    /\ FullSplit
    /\ StoredReserve # minimum_balance(DestinationBefore.data_len)
    /\ DestinationAfter.state.kind = "Stake"
    /\ StakeOf(DestinationAfter.state) + RentExemptMinimum < DestinationAfter.lamports

\* C18 witness: a successful full split grants the destination all that its
\* balance backs.
C18_WitnessTight ==
    /\ Succeeded
    /\ SourceBefore.state.kind = "Stake"
    /\ FullSplit
    /\ StakeOf(DestinationAfter.state) + RentExemptMinimum = DestinationAfter.lamports

\* C19: a split of a signed Uninitialized source of any amount up to its
\* balance into an empty destination succeeds, leaves both states
\* Uninitialized and changes nothing but the two balances.
C19_UninitializedMovesBalance ==
    (/\ Called
     /\ SourceBefore.state.kind = "Uninitialized"
     /\ call.src \in call.signers
     /\ PreconditionsHold) =>
        /\ Succeeded
        /\ SourceAfter.state = Uninitialized
        /\ DestinationAfter.state = Uninitialized
        /\ accounts = [pre EXCEPT
              ![call.src].lamports = SourceBefore.lamports - call.split_lamports,
              ![call.dst].lamports = DestinationBefore.lamports + call.split_lamports]

\* C19 witness: a signed Uninitialized source moves less than the reserve
\* into an empty destination, leaving both below the reserve.
C19_Witness ==
    /\ Succeeded
    /\ SourceBefore.state.kind = "Uninitialized"
    /\ call.split_lamports > 0
    /\ SourceAfter.lamports < minimum_balance(SourceAfter.data_len)
    /\ DestinationAfter.lamports < minimum_balance(DestinationAfter.data_len)

\* C20: a successful partial split of a Stake source changes nothing of the
\* source's state but its delegated stake, and the destination is a Stake
\* with the voter, the activation and deactivation epochs and the flags the
\* source had.
C20_StakeSplitFrame ==
    (Succeeded /\ SourceBefore.state.kind = "Stake" /\ ~FullSplit) =>
        /\ SourceAfter.state.kind = "Stake"
        /\ SourceAfter.state.meta = SourceBefore.state.meta
        /\ SourceAfter.state.flags = SourceBefore.state.flags
        /\ [SourceAfter.state.stake EXCEPT
               !.delegation.stake = SourceBefore.state.stake.delegation.stake]
              = SourceBefore.state.stake
        /\ DestinationAfter.state.kind = "Stake"
        /\ DestinationAfter.state.stake.delegation.voter_pubkey
              = SourceBefore.state.stake.delegation.voter_pubkey
        /\ DestinationAfter.state.stake.delegation.activation_epoch
              = SourceBefore.state.stake.delegation.activation_epoch
        /\ DestinationAfter.state.stake.delegation.deactivation_epoch
              = SourceBefore.state.stake.delegation.deactivation_epoch
        /\ DestinationAfter.state.flags = SourceBefore.state.flags

\* C20 witness: a successful partial split of a flagged Stake source whose
\* delegated stake went down.
C20_Witness ==
    /\ Succeeded
    /\ SourceBefore.state.kind = "Stake"
    /\ ~FullSplit
    /\ SourceBefore.state.flags # 0
    /\ StakeOf(SourceAfter.state) < StakeOf(SourceBefore.state)

====
